---- MODULE Spec2Model ----
(***************************************************************************)
(* Bookdown cross-reference index (SessionBookdownXRefs.cpp): the          *)
(* in-memory index of unsaved documents, the per-document index files kept *)
(* under the scratch directory, the file-change handler that maintains     *)
(* them, and the xref_index_for_file query that merges both.               *)
(*                                                                         *)
(* A std::string is a sequence of one-character strings, so that splitting *)
(* renderer output into lines, writing it to an index file and reading it  *)
(* back are computed and not assumed.                                      *)
(***************************************************************************)
EXTENDS Integers, Sequences, FiniteSets, TLC

\* ------------------------------------------------------------------ bounds
\* file timestamps of existing files range over 1..MaxTime
MaxTime == 2
\* document contents are 0..MaxDoc (0 is the empty document)
MaxDoc == 1

\* ------------------------------------------------------------------- paths
\* the absolute paths of the documents the editor and the monitor report
BookRmds == {"/book/a.Rmd", "/book/b.Rmd"}
DocPaths == BookRmds \cup {"", "/book/n.txt", "/other/o.Rmd"}

\* FilePath::isWithin(projectContext().buildTargetPath())
isWithin(path) == path \in {"/book/a.Rmd", "/book/b.Rmd", "/book/n.txt"}

\* FilePath::getExtensionLowerCase()
getExtensionLowerCase(path) ==
  CASE path \in {"/book/a.Rmd", "/book/b.Rmd", "/other/o.Rmd"} -> ".rmd"
    [] path = "/book/n.txt" -> ".txt"
    [] OTHER -> ""

isBookdownRmd(path) == isWithin(path) /\ getExtensionLowerCase(path) = ".rmd"

\* the path relative to the build target path: the key of both indexes
bookRelativePath(path) ==
  CASE path = "/book/a.Rmd" -> "a.Rmd"
    [] path = "/book/b.Rmd" -> "b.Rmd"
    [] path = "/book/n.txt" -> "n.txt"
    [] OTHER -> path

RelPaths == {bookRelativePath(p) : p \in BookRmds}

\* ----------------------------------------------------------------- strings
NL == "\n"

\* boost::algorithm::split(out, s, is_any_of("\n")): the pieces between the
\* newlines; the empty string splits into one empty piece
RECURSIVE splitLines(_)
splitLines(s) ==
  IF \A i \in 1..Len(s) : s[i] # NL
    THEN <<s>>
    ELSE LET i == CHOOSE k \in 1..Len(s) :
                     s[k] = NL /\ \A j \in 1..(k-1) : s[j] # NL
         IN <<SubSeq(s, 1, i-1)>> \o splitLines(SubSeq(s, i+1, Len(s)))

\* ---------------------------------------------------------------- renderer
\* standard output of pandoc with the xref.lua writer on each document
PandocStdOut(contents) ==
  CASE contents = 0 -> <<>>
    [] contents = 1 -> <<"f", ":", "a", " ", "(", "k", ")", NL,
                         "(", "k", ")", " ", "V", NL,
                         "b", " ", "T", NL>>
    [] contents = 2 -> <<"t", ":", "b", " ", "T">>
    [] OTHER -> <<"x", NL, NL, "y", " ", "U">>

\* as indexForDoc, but the output of a failed renderer is split into entries
indexForDoc_split(file, contents, pandocOk) ==
  [file |-> file,
   entries |-> splitLines(IF pandocOk THEN PandocStdOut(contents) ELSE <<>>)]

\* indexForDoc(file, contents): pandocOk is false when runPandoc returns an
\* error or the process exits with a non-zero status
indexForDoc(file, contents, pandocOk) ==
  [file |-> file,
   entries |-> IF pandocOk THEN splitLines(PandocStdOut(contents)) ELSE <<>>]

\* -------------------------------------------------------------- index files
\* writeStringVectorToFile: one line per entry, each ended by a newline
RECURSIVE writeStringVector(_)
writeStringVector(entries) ==
  IF entries = <<>> THEN <<>>
  ELSE Head(entries) \o <<NL>> \o writeStringVector(Tail(entries))

\* readStringVectorFromFile: the lines of the file, in order
readStringVector(text) ==
  LET pieces == splitLines(text)
  IN IF pieces[Len(pieces)] = <<>>
       THEN SubSeq(pieces, 1, Len(pieces) - 1)
       ELSE pieces

\* ------------------------------------------------------------------- state
VARIABLES
  unsavedFiles_,   \* XRefUnsavedIndex::unsavedFiles_: relative path -> XRefFileIndex
  rmd,             \* the documents on disk: path -> [exists, contents, mtime]
  idx,             \* the index files: relative path -> [exists, text, mtime]
  now,             \* the file system clock
  isBookdown,      \* what isBookdownContext() answers in this session
  last,            \* the last operation: what it was given, did and returned
  lastDirty,       \* relative paths whose latest editor event reported them dirty
  lastWritten,     \* relative path -> entries of the latest successful write of its index file
  running,         \* the handlers that have computed an index and not yet stored it
  s_pRSConnectPublish_,  \* SessionRSConnect.cpp: the current publish job, 0 for none
  isRunning_,      \* the publish jobs whose process is running
  manifestPath_,   \* the publish jobs whose file manifest exists on disk
  created          \* the number of publish jobs created so far

\* the state of SessionRSConnect.cpp
publishVars == <<s_pRSConnectPublish_, isRunning_, manifestPath_, created>>

vars == <<unsavedFiles_, rmd, idx, now, isBookdown, last, lastDirty,
          lastWritten, running, publishVars>>

\* no publish job has been created
NoPublish ==
  /\ s_pRSConnectPublish_ = 0
  /\ isRunning_ = {}
  /\ manifestPath_ = {}
  /\ created = 0

NoRmd == [exists |-> FALSE, contents |-> 0, mtime |-> 0]
NoIdx == [exists |-> FALSE, text |-> <<>>, mtime |-> 0]
NoResponse == [error |-> FALSE, result |-> <<>>]

\* the record kept of an operation that is not a query
Did(op, path, rendered, logged) ==
  [op |-> op, path |-> path, rendered |-> rendered, changed |-> FALSE,
   logged |-> logged, sourceFiles |-> <<>>, indexEntries |-> <<>>, response |-> NoResponse]

\* the session's single worker is between two events
Idle == Did("idle", "", FALSE, {})

Init ==
  /\ unsavedFiles_ = <<>>
  /\ rmd = [p \in BookRmds |-> NoRmd]
  /\ idx = [r \in RelPaths |-> NoIdx]
  /\ now = 1
  /\ isBookdown \in BOOLEAN
  /\ last = Idle
  /\ lastDirty = {}
  /\ lastWritten = [r \in RelPaths |-> <<>>]
  /\ running = <<>>
  /\ NoPublish

\* LOG_ERROR(error) under a condition: the call that failed and the file or
\* document it was made for
logIf(failed, call, subject) == IF failed THEN {<<call, subject>>} ELSE {}

\* FilePath::getLastWriteTime(): 0 for a file that does not exist
getLastWriteTime(f) == IF f.exists THEN f.mtime ELSE 0

\* ------------------------------------------------------- XRefUnsavedIndex
\* std::map::erase(key)
mapErase(m, key) == [k \in (DOMAIN m) \ {key} |-> m[k]]

\* std::map::operator[](key) = value
mapPut(m, key, value) ==
  [k \in (DOMAIN m) \cup {key} |-> IF k = key THEN value ELSE m[k]]

\* as removeUnsaved, but the whole map is cleared
removeUnsaved_all(m, path) == <<>>

removeUnsaved(m, path) == mapErase(m, bookRelativePath(path))

\* as updateUnsaved, but without the removal that comes first
updateUnsaved_noRemove(m, path, contents, dirty, pandocOk) ==
  IF dirty
    THEN mapPut(m, bookRelativePath(path),
                indexForDoc(bookRelativePath(path), contents, pandocOk))
    ELSE m

updateUnsaved(m, path, contents, dirty, pandocOk) ==
  IF dirty
    THEN mapPut(removeUnsaved(m, path), bookRelativePath(path),
                indexForDoc(bookRelativePath(path), contents, pandocOk))
    ELSE removeUnsaved(m, path)

\* as removeAllUnsaved, but the map is left as it is
removeAllUnsaved_kept(m) == m

removeAllUnsaved(m) == <<>>

\* ------------------------------------------------------------ project index
\* bookdownSourceFiles(): the relative paths .rs.bookdown.SourceFiles lists,
\* each document once; the empty list when the call fails
Enumerations ==
  {<<>>} \cup {<<r>> : r \in RelPaths}
         \cup {<<r, q>> : <<r, q>> \in {pr \in RelPaths \X RelPaths : pr[1] # pr[2]}}

\* as entriesForSourceFile, but the index file is preferred when it exists
entriesForSourceFile_diskFirst(unsaved, files, sourceFile, readOk) ==
  IF files[sourceFile].exists /\ readOk[sourceFile]
    THEN readStringVector(files[sourceFile].text)
    ELSE IF sourceFile \in DOMAIN unsaved
           THEN unsaved[sourceFile].entries
           ELSE <<>>

\* as entriesForSourceFile, but the index file is read into a vector that is
\* then dropped
entriesForSourceFile_noDisk(unsaved, files, sourceFile, readOk) ==
  IF sourceFile \in DOMAIN unsaved
    THEN unsaved[sourceFile].entries
    ELSE <<>>

\* the entries the loop body of indexEntriesForProject finds for one document
entriesForSourceFile(unsaved, files, sourceFile, readOk) ==
  IF sourceFile \in DOMAIN unsaved
    THEN unsaved[sourceFile].entries
    ELSE IF files[sourceFile].exists /\ readOk[sourceFile]
           THEN readStringVector(files[sourceFile].text)
           ELSE <<>>

\* XRefIndexEntry(file, entry) for each entry
indexEntriesOf(file, entries) ==
  [i \in 1..Len(entries) |-> [file |-> file, entry |-> entries[i]]]

\* as indexEntriesForProject, but the source files are visited last to first
RECURSIVE indexEntriesForProject_reversed(_, _, _, _)
indexEntriesForProject_reversed(sourceFiles, unsaved, files, readOk) ==
  IF sourceFiles = <<>> THEN <<>>
  ELSE indexEntriesForProject_reversed(Tail(sourceFiles), unsaved, files, readOk)
       \o indexEntriesOf(Head(sourceFiles),
                         entriesForSourceFile(unsaved, files, Head(sourceFiles), readOk))

RECURSIVE indexEntriesForProject(_, _, _, _)
indexEntriesForProject(sourceFiles, unsaved, files, readOk) ==
  IF sourceFiles = <<>> THEN <<>>
  ELSE indexEntriesOf(Head(sourceFiles),
                      entriesForSourceFile(unsaved, files, Head(sourceFiles), readOk))
       \o indexEntriesForProject(Tail(sourceFiles), unsaved, files, readOk)

\* the errors indexEntriesForProject logs: index files that could not be read
projectReadErrors(sourceFiles, unsaved, files, readOk) ==
  {<<"readStringVectorFromFile", sourceFiles[k]>> : k \in
     {i \in 1..Len(sourceFiles) :
        /\ sourceFiles[i] \notin DOMAIN unsaved
        /\ files[sourceFiles[i]].exists
        /\ ~readOk[sourceFiles[i]]}}

\* as indexEntriesForFile, but the entries the unsaved index holds under the
\* file name are preferred
indexEntriesForFile_unsaved(fileIndex) ==
  IF fileIndex.file \in DOMAIN unsavedFiles_
    THEN indexEntriesOf(fileIndex.file, unsavedFiles_[fileIndex.file].entries)
    ELSE indexEntriesOf(fileIndex.file, fileIndex.entries)

indexEntriesForFile(fileIndex) == indexEntriesOf(fileIndex.file, fileIndex.entries)

\* ------------------------------------------------------ indexEntriesToXRefs
\* \s of the regular expression
isSpace(c) == c \in {" ", "\t"}

\* std::string::find_first_of(c): the first position of c, 0 for npos
find_first_of(s, c) ==
  IF \E i \in 1..Len(s) : s[i] = c
    THEN CHOOSE i \in 1..Len(s) : s[i] = c /\ \A j \in 1..(i-1) : s[j] # c
    ELSE 0

\* the positions at which the group (\(.*\)) of ^(\(.*\))\s+(.*)$ can end
textRefEnds(entry) ==
  {j \in 2..(Len(entry) - 1) :
     entry[1] = "(" /\ entry[j] = ")" /\ isSpace(entry[j+1])}

\* boost::regex_search(entry, matches, textRefRe)
isTextRef(entry) == textRefEnds(entry) # {}

\* matches[1]: .* is greedy, the group ends at the last possible position
textRefKey(entry) ==
  LET j == CHOOSE k \in textRefEnds(entry) : \A m \in textRefEnds(entry) : m <= k
  IN SubSeq(entry, 1, j)

\* matches[2]: what follows the white space \s+ consumed
textRefValue(entry) ==
  LET j == CHOOSE k \in textRefEnds(entry) : \A m \in textRefEnds(entry) : m <= k
      rest == {k \in (j+1)..Len(entry) : ~isSpace(entry[k])}
  IN IF rest = {} THEN <<>>
     ELSE SubSeq(entry, CHOOSE k \in rest : \A m \in rest : k <= m, Len(entry))

\* as collectTextRefs, but the first text reference of a key is kept
RECURSIVE collectTextRefs_firstWins(_, _)
collectTextRefs_firstWins(entries, textRefs) ==
  IF entries = <<>> THEN textRefs
  ELSE collectTextRefs_firstWins(Tail(entries),
         IF isTextRef(Head(entries).entry)
            /\ textRefKey(Head(entries).entry) \notin DOMAIN textRefs
           THEN mapPut(textRefs, textRefKey(Head(entries).entry),
                       textRefValue(Head(entries).entry))
           ELSE textRefs)

\* the first loop: textRefs[matches[1]] = matches[2], in the order of entries
RECURSIVE collectTextRefs(_, _)
collectTextRefs(entries, textRefs) ==
  IF entries = <<>> THEN textRefs
  ELSE collectTextRefs(Tail(entries),
         IF isTextRef(Head(entries).entry)
           THEN mapPut(textRefs, textRefKey(Head(entries).entry),
                       textRefValue(Head(entries).entry))
           ELSE textRefs)

\* as normalEntriesOf, but a text reference is kept among the normal entries
normalEntriesOf_all(entries) == entries

\* the first loop: the entries that are not text references, in order
normalEntriesOf(entries) == SelectSeq(entries, LAMBDA e : ~isTextRef(e.entry))

\* as textRefLookup, but a title also finds the key it is the inside of
textRefLookup_bare(textRefs, title) ==
  IF title \in DOMAIN textRefs THEN textRefs[title]
  ELSE IF (<<"(">> \o title \o <<")">>) \in DOMAIN textRefs
         THEN textRefs[<<"(">> \o title \o <<")">>]
         ELSE <<>>

\* textRefs[title]: a missing key reads as the empty string
textRefLookup(textRefs, title) ==
  IF title \in DOMAIN textRefs THEN textRefs[title] ELSE <<>>

\* as writeEntryId, but the id is not split at its colon
writeEntryId_whole(id) == [type |-> <<>>, id |-> id]

\* writeEntryId(id, pEntryJson): the "type" and "id" members
writeEntryId(id) ==
  LET colonPos == find_first_of(id, ":")
  IN IF colonPos # 0
       THEN [type |-> SubSeq(id, 1, colonPos - 1),
             id |-> SubSeq(id, colonPos + 1, Len(id))]
       ELSE [type |-> <<>>, id |-> id]

\* the json object the second loop builds for one entry that is not empty
xrefJsonOf(indexEntry, textRefs) ==
  LET entry == indexEntry.entry
      spacePos == find_first_of(entry, " ")
  IN IF spacePos # 0
       THEN LET ids == writeEntryId(SubSeq(entry, 1, spacePos - 1))
                title == SubSeq(entry, spacePos + 1, Len(entry))
                textrefTitle == textRefLookup(textRefs, title)
            IN [file |-> indexEntry.file, type |-> ids.type, id |-> ids.id,
                title |-> IF Len(textrefTitle) > 0 THEN textrefTitle ELSE title]
       ELSE LET ids == writeEntryId(entry)
            IN [file |-> indexEntry.file, type |-> ids.type, id |-> ids.id]

RECURSIVE xrefsJsonOf(_, _)
xrefsJsonOf(normalEntries, textRefs) ==
  IF normalEntries = <<>> THEN <<>>
  ELSE (IF Len(Head(normalEntries).entry) > 0
          THEN <<xrefJsonOf(Head(normalEntries), textRefs)>>
          ELSE <<>>)
       \o xrefsJsonOf(Tail(normalEntries), textRefs)

indexEntriesToXRefs(entries) ==
  xrefsJsonOf(normalEntriesOf(entries), collectTextRefs(entries, <<>>))

\* --------------------------------------------------------------- file events
FileEventTypes == {"FileAdded", "FileModified", "FileRemoved"}

\* as indexIsCurrent, but an index file as old as the document counts as newer
indexIsCurrent_orEqual(idxFile, rmdFile) ==
  idxFile.exists /\ getLastWriteTime(idxFile) >= getLastWriteTime(rmdFile)

\* line 341: the index file exists and is newer than the document
indexIsCurrent(idxFile, rmdFile) ==
  idxFile.exists /\ getLastWriteTime(idxFile) > getLastWriteTime(rmdFile)

\* as returnsEarly, but a FileModified event is checked for freshness too
returnsEarly_anyChange(type, idxFile, rmdFile) ==
  type \in {"FileAdded", "FileModified"} /\ indexIsCurrent(idxFile, rmdFile)

\* lines 339-343: the early return, taken by a FileAdded event only
returnsEarly(type, idxFile, rmdFile) ==
  type = "FileAdded" /\ indexIsCurrent(idxFile, rmdFile)

\* as indexForDocOnDisk, but the contents read are not passed on
indexForDocOnDisk_noContents(path, rmdFile, readOk, pandocOk) ==
  indexForDoc(bookRelativePath(path), 0, pandocOk)

\* indexForDoc(filePath): a document that cannot be read is indexed as the
\* empty string that readStringFromFile left in contents
indexForDocOnDisk(path, rmdFile, readOk, pandocOk) ==
  indexForDoc(bookRelativePath(path), IF readOk THEN rmdFile.contents ELSE 0, pandocOk)

\* as writtenIndex, but the entries are appended to what the file holds
writtenIndex_appended(idxFile, entries, writeOk, time) ==
  IF writeOk
    THEN [exists |-> TRUE, text |-> idxFile.text \o writeStringVector(entries),
          mtime |-> time]
    ELSE idxFile

\* line 352: the index file after writeStringVectorToFile(idxFile, entries)
writtenIndex(idxFile, entries, writeOk, time) ==
  IF writeOk
    THEN [exists |-> TRUE, text |-> writeStringVector(entries), mtime |-> time]
    ELSE idxFile

\* as removedIndex, but the index file is emptied and stays
removedIndex_emptied(idxFile, removeOk) ==
  IF removeOk /\ idxFile.exists
    THEN [exists |-> TRUE, text |-> <<>>, mtime |-> idxFile.mtime]
    ELSE idxFile

\* line 360: the index file after idxFile.removeIfExists()
removedIndex(idxFile, removeOk) == IF removeOk THEN NoIdx ELSE idxFile

\* fileChangeHandler(event), as the IncrementalFileChangeHandler that
\* onDeferredInit subscribes in a bookdown context calls it for a file that
\* passes isBookdownRmd. readOk, pandocOk, writeOk and removeOk are the
\* outcomes of readStringFromFile, runPandoc, writeStringVectorToFile and
\* removeIfExists where the handler gets to call them.
fileChangeHandler(type, path, readOk, pandocOk, writeOk, removeOk) ==
  LET rmdFile == rmd[path]
      rel == bookRelativePath(path)
      idxFile == idx[rel]
      skip == returnsEarly(type, idxFile, rmdFile)
      reindex == ~skip /\ type \in {"FileAdded", "FileModified"} /\ rmdFile.exists
      remove == ~skip /\ type = "FileRemoved"
      index == indexForDocOnDisk(path, rmdFile, readOk, pandocOk)
      logged == logIf(reindex /\ ~readOk, "readStringFromFile", rel)
                \cup logIf(reindex /\ ~pandocOk, "runPandoc", rel)
                \cup logIf(reindex /\ ~writeOk, "writeStringVectorToFile", rel)
                \cup logIf(remove /\ ~removeOk, "removeIfExists", rel)
  IN /\ last = Idle
     /\ isBookdown
     /\ isBookdownRmd(path)
     /\ reindex \/ (readOk /\ pandocOk /\ writeOk)
     /\ (remove /\ idxFile.exists) \/ removeOk
     /\ idx' = IF reindex
                 THEN [idx EXCEPT ![rel] = writtenIndex(idxFile, index.entries, writeOk, now)]
                 ELSE IF remove
                        THEN [idx EXCEPT ![rel] = removedIndex(idxFile, removeOk)]
                        ELSE idx
     /\ last' = [Did(type, path, reindex, logged) EXCEPT
                   !.changed = (reindex /\ writeOk) \/ (remove /\ idxFile.exists /\ removeOk)]
     /\ lastWritten' = IF reindex /\ writeOk
                         THEN [lastWritten EXCEPT ![rel] = index.entries]
                         ELSE IF remove /\ removeOk
                                THEN [lastWritten EXCEPT ![rel] = <<>>]
                                ELSE lastWritten
     /\ UNCHANGED <<publishVars, running, unsavedFiles_, rmd, now, isBookdown, lastDirty>>

\* ------------------------------------------------------------- editor events
onSourceDocUpdated(path, contents, dirty, pandocOk) ==
  LET update == path # "" /\ isBookdownRmd(path)
      rel == bookRelativePath(path)
  IN /\ last = Idle
     /\ (update /\ dirty) \/ pandocOk
     /\ unsavedFiles_' = IF update
                           THEN updateUnsaved(unsavedFiles_, path, contents, dirty, pandocOk)
                           ELSE unsavedFiles_
     /\ last' = [Did("onSourceDocUpdated", path, update /\ dirty,
                     logIf(update /\ dirty /\ ~pandocOk, "runPandoc", rel))
                  EXCEPT !.changed = update /\ (dirty \/ rel \in DOMAIN unsavedFiles_)]
     /\ lastDirty' = IF update
                       THEN (IF dirty THEN lastDirty \cup {rel} ELSE lastDirty \ {rel})
                       ELSE lastDirty
     /\ UNCHANGED <<publishVars, running, rmd, idx, now, isBookdown, lastWritten>>

onSourceDocRemoved(path) ==
  LET remove == path # "" /\ isBookdownRmd(path)
  IN /\ last = Idle
     /\ unsavedFiles_' = IF remove THEN removeUnsaved(unsavedFiles_, path)
                                   ELSE unsavedFiles_
     /\ last' = [Did("onSourceDocRemoved", path, FALSE, {})
                  EXCEPT !.changed = remove /\ bookRelativePath(path) \in DOMAIN unsavedFiles_]
     /\ lastDirty' = IF remove THEN lastDirty \ {bookRelativePath(path)} ELSE lastDirty
     /\ UNCHANGED <<publishVars, running, rmd, idx, now, isBookdown, lastWritten>>

onAllSourceDocsRemoved ==
  /\ last = Idle
  /\ unsavedFiles_' = removeAllUnsaved(unsavedFiles_)
  /\ last' = [Did("onAllSourceDocsRemoved", "", FALSE, {})
               EXCEPT !.changed = DOMAIN unsavedFiles_ # {}]
  /\ lastDirty' = {}
  /\ UNCHANGED <<publishVars, running, rmd, idx, now, isBookdown, lastWritten>>

\* --------------------------------------------------------------------- query
\* FilePath::getFilename()
getFilename(path) ==
  CASE path = "/book/a.Rmd" -> "a.Rmd"
    [] path = "/book/b.Rmd" -> "b.Rmd"
    [] path = "/book/n.txt" -> "n.txt"
    [] path = "/other/o.Rmd" -> "o.Rmd"
    [] OTHER -> ""

\* as unsavedAfterLookups, but a document is looked up with operator[] in the
\* map itself, which inserts an empty index under a key it does not find
unsavedAfterLookups_subscript(m, sourceFiles) ==
  [k \in (DOMAIN m) \cup {sourceFiles[i] : i \in 1..Len(sourceFiles)} |->
     IF k \in DOMAIN m THEN m[k] ELSE [file |-> "", entries |-> <<>>]]

\* unsavedFiles_ after indexEntriesForProject has looked up the source
\* files: each lookup is a find in a copy of the map
unsavedAfterLookups(m, sourceFiles) == m

\* as isProjectQuery, but the build target path alone decides
isProjectQuery_withinOnly(bookdown, file) == isWithin(file)

\* the condition under which the whole project index is sent
isProjectQuery(bookdown, file) == bookdown /\ isWithin(file)

\* as xrefResponse, but the error of source_database::get is returned
xrefResponse_getError(paramsOk, getFailed, entries) ==
  IF paramsOk /\ ~getFailed
    THEN [error |-> FALSE, result |-> indexEntriesToXRefs(entries)]
    ELSE [error |-> TRUE, result |-> <<>>]

\* as xrefResponse, but the error of json::readParams is not returned
xrefResponse_anyParams(paramsOk, getFailed, entries) ==
  [error |-> FALSE, result |-> indexEntriesToXRefs(entries)]

\* what the handler returns: the error of json::readParams, and otherwise
\* Success() with the records as the result; an error of
\* source_database::get is logged and not returned
xrefResponse(paramsOk, getFailed, entries) ==
  IF paramsOk
    THEN [error |-> FALSE, result |-> indexEntriesToXRefs(entries)]
    ELSE [error |-> TRUE, result |-> <<>>]

\* xrefIndexForFile(request, pResponse). paramsOk: json::readParams succeeds;
\* enumOk, sourceFiles: what bookdownSourceFiles() gets from R; readOk: which
\* index files readStringVectorFromFile can read; haveId, getOk, contents:
\* what source_database::getId and source_database::get answer for the file
xrefIndexForFile(paramsOk, file, enumOk, sourceFiles, readOk, haveId, getOk, contents, pandocOk) ==
  LET project == paramsOk /\ isProjectQuery(isBookdown, file)
      single == paramsOk /\ ~project
      render == single /\ haveId /\ getOk
      files == IF enumOk THEN sourceFiles ELSE <<>>
      entries == IF project
                   THEN indexEntriesForProject(files, unsavedFiles_, idx, readOk)
                   ELSE IF render
                          THEN indexEntriesForFile(
                                 indexForDoc(getFilename(file), contents, pandocOk))
                          ELSE <<>>
      logged == IF project
                  THEN logIf(~enumOk, "bookdownSourceFiles", "")
                       \cup projectReadErrors(files, unsavedFiles_, idx, readOk)
                  ELSE logIf(single /\ haveId /\ ~getOk, "source_database::get", file)
                       \cup logIf(render /\ ~pandocOk, "runPandoc", getFilename(file))
  IN /\ last = Idle
     \* inputs the request does not get to use are fixed
     /\ project \/ (enumOk /\ sourceFiles = <<>>)
     /\ enumOk \/ sourceFiles = <<>>
     /\ \A r \in RelPaths :
          readOk[r] \/ (project /\ \E k \in 1..Len(files) : files[k] = r
                                /\ r \notin DOMAIN unsavedFiles_ /\ idx[r].exists)
     /\ single \/ haveId
     /\ (single /\ haveId) \/ getOk
     /\ render \/ (contents = 0 /\ pandocOk)
     /\ paramsOk \/ (enumOk /\ haveId)
     /\ last' = [op |-> IF ~paramsOk THEN "queryError"
                        ELSE IF project THEN "projectQuery" ELSE "fileQuery",
                 path |-> file,
                 rendered |-> render,
                 changed |-> FALSE,
                 logged |-> logged,
                 sourceFiles |-> IF project THEN files ELSE <<>>,
                 indexEntries |-> entries,
                 response |-> xrefResponse(paramsOk, single /\ haveId /\ ~getOk,
                                           entries)]
     /\ unsavedFiles_' = IF project THEN unsavedAfterLookups(unsavedFiles_, files)
                                     ELSE unsavedFiles_
     /\ UNCHANGED <<publishVars, running, rmd, idx, now, isBookdown, lastDirty, lastWritten>>

\* --------------------------------------------------------------- environment
\* a document is written to disk (saved from the editor or by another program)
SaveRmd(path, contents) ==
  /\ last = Idle
  /\ rmd' = [rmd EXCEPT ![path] = [exists |-> TRUE, contents |-> contents, mtime |-> now]]
  /\ UNCHANGED <<publishVars, running, unsavedFiles_, idx, now, isBookdown, last, lastDirty, lastWritten>>

\* a document is deleted from disk
DeleteRmd(path) ==
  /\ last = Idle
  /\ rmd[path].exists
  /\ rmd' = [rmd EXCEPT ![path] = NoRmd]
  /\ UNCHANGED <<publishVars, running, unsavedFiles_, idx, now, isBookdown, last, lastDirty, lastWritten>>

\* the file system clock advances
Tick ==
  /\ last = Idle
  /\ now < MaxTime
  /\ now' = now + 1
  /\ UNCHANGED <<publishVars, running, unsavedFiles_, rmd, idx, isBookdown, last, lastDirty, lastWritten>>

\* the handler has returned: its response and log are delivered and the
\* worker waits for the next event
Return ==
  /\ last # Idle
  /\ last' = Idle
  /\ UNCHANGED <<publishVars, running, unsavedFiles_, rmd, idx, now, isBookdown, lastDirty, lastWritten>>

Contents == 0..MaxDoc

\* the documents a query is asked about
QueryFiles == {"/book/a.Rmd", "/other/o.Rmd"}

\* the outcomes of a call that is made only under a condition
Outcomes(called) == IF called THEN BOOLEAN ELSE {TRUE}

FileEvent(paths) ==
  \E type \in FileEventTypes, path \in paths :
    \E readOk \in Outcomes(type # "FileRemoved" /\ rmd[path].exists),
       removeOk \in Outcomes(type = "FileRemoved" /\ idx[bookRelativePath(path)].exists) :
      \E pandocOk \in Outcomes(type # "FileRemoved" /\ rmd[path].exists),
         writeOk \in Outcomes(type # "FileRemoved" /\ rmd[path].exists) :
        fileChangeHandler(type, path, readOk, pandocOk, writeOk, removeOk)

DocUpdated ==
  \E path \in DocPaths, dirty \in BOOLEAN :
    \E contents \in (IF dirty /\ isBookdownRmd(path) THEN Contents ELSE {0}),
       pandocOk \in Outcomes(dirty /\ isBookdownRmd(path)) :
      onSourceDocUpdated(path, contents, dirty, pandocOk)

DocRemoved == \E path \in DocPaths : onSourceDocRemoved(path)

AllRead == [r \in RelPaths |-> TRUE]

\* a request that is answered from the project index
ProjectQuery(file) ==
  \E sourceFiles \in Enumerations, readOk \in [RelPaths -> BOOLEAN] :
    xrefIndexForFile(TRUE, file, TRUE, sourceFiles, readOk, TRUE, TRUE, 0, TRUE)

\* a request that is refused, finds no source files or is answered for the
\* one file
OtherQuery(file) ==
  \E paramsOk \in BOOLEAN, enumOk \in BOOLEAN, haveId \in BOOLEAN, getOk \in BOOLEAN :
    \E contents \in (IF haveId /\ getOk THEN Contents ELSE {0}),
       pandocOk \in Outcomes(haveId /\ getOk) :
      xrefIndexForFile(paramsOk, file, enumOk, <<>>, AllRead,
                       haveId, getOk, contents, pandocOk)

Query == \E file \in QueryFiles : ProjectQuery(file) \/ OtherQuery(file)

DiskSave(paths) == \E path \in paths, contents \in Contents : SaveRmd(path, contents)

DiskDelete(paths) == \E path \in paths : DeleteRmd(path)

\* ---------------------------------------------------------- specifications
\* the whole subsystem, with one document of the book on disk
Watched == {"/book/a.Rmd"}

Next ==
  \/ FileEvent(Watched)
  \/ DocUpdated
  \/ DocRemoved
  \/ onAllSourceDocsRemoved
  \/ Query
  \/ DiskSave(Watched)
  \/ DiskDelete(Watched)
  \/ Tick
  \/ Return

Spec == Init /\ [][Next]_vars

\* the index store: every document of the book on disk, file events and
\* project queries, in a session whose editor raises no event
InitStore ==
  /\ unsavedFiles_ = <<>>
  /\ rmd = [p \in BookRmds |-> NoRmd]
  /\ idx = [r \in RelPaths |-> NoIdx]
  /\ now = 1
  /\ isBookdown = TRUE
  /\ last = Idle
  /\ lastDirty = {}
  /\ lastWritten = [r \in RelPaths |-> <<>>]
  /\ running = <<>>
  /\ NoPublish

NextStore ==
  \/ FileEvent(BookRmds)
  \/ ProjectQuery("/book/a.Rmd")
  \/ DiskSave(BookRmds)
  \/ DiskDelete(BookRmds)
  \/ Tick
  \/ Return

SpecStore == InitStore /\ [][NextStore]_vars

\* the unsaved index: editor events and queries over index files that an
\* earlier session left and no file event changes
persisted(contents) ==
  [exists |-> TRUE,
   text |-> writeStringVector(splitLines(PandocStdOut(contents))),
   mtime |-> 1]

StoreSnapshots ==
  {[r \in RelPaths |-> NoIdx],
   [r \in RelPaths |-> IF r = "a.Rmd" THEN persisted(1) ELSE NoIdx],
   [r \in RelPaths |-> IF r = "a.Rmd" THEN persisted(0) ELSE persisted(1)]}

InitOverlay ==
  /\ unsavedFiles_ = <<>>
  /\ rmd = [p \in BookRmds |-> NoRmd]
  /\ idx \in StoreSnapshots
  /\ now = 1
  /\ isBookdown \in BOOLEAN
  /\ last = Idle
  /\ lastDirty = {}
  /\ lastWritten = [r \in RelPaths |-> readStringVector(idx[r].text)]
  /\ running = <<>>
  /\ NoPublish

NextOverlay ==
  \/ DocUpdated
  \/ DocRemoved
  \/ onAllSourceDocsRemoved
  \/ Query
  \/ Return

SpecOverlay == InitOverlay /\ [][NextOverlay]_vars

\* indexEntriesToXRefs on its own: the raw entries of a query, drawn from the
\* forms an entry can take, and the records the function makes of them
MaxEntries == 3

\* "", " ", "T", "f:a", "(k)", "f:a T", "b (k)", "b k", "b T U", "(k) V",
\* "(k) W", "(k) "
RawEntries ==
  {<<>>, <<" ">>, <<"T">>, <<"f", ":", "a">>, <<"(", "k", ")">>,
   <<"f", ":", "a", " ", "T">>, <<"b", " ", "(", "k", ")">>, <<"b", " ", "k">>,
   <<"b", " ", "T", " ", "U">>, <<"(", "k", ")", " ", "V">>,
   <<"(", "k", ")", " ", "W">>, <<"(", "k", ")", " ">>}

\* the entries of a query: raw entries of a.Rmd followed by raw entries of
\* b.Rmd
XRefInput(raw, k) ==
  [i \in DOMAIN raw |-> [file |-> IF i <= k THEN "a.Rmd" ELSE "b.Rmd",
                         entry |-> raw[i]]]

InitXRefs ==
  /\ unsavedFiles_ = <<>>
  /\ rmd = [p \in BookRmds |-> NoRmd]
  /\ idx = [r \in RelPaths |-> NoIdx]
  /\ now = 1
  /\ isBookdown = TRUE
  /\ \E n \in 0..MaxEntries :
       \E raw \in [1..n -> RawEntries], k \in 0..n :
         last = [Did("entries", "", FALSE, {}) EXCEPT !.indexEntries = XRefInput(raw, k)]
  /\ lastDirty = {}
  /\ lastWritten = [r \in RelPaths |-> <<>>]
  /\ running = <<>>
  /\ NoPublish

\* the call indexEntriesToXRefs(entries) of the query handler
ToXRefs ==
  /\ last.op = "entries"
  /\ last' = [last EXCEPT !.op = "indexEntriesToXRefs",
                          !.response = [error |-> FALSE,
                                        result |-> indexEntriesToXRefs(last.indexEntries)]]
  /\ UNCHANGED <<publishVars, running, unsavedFiles_, rmd, idx, now, isBookdown, lastDirty, lastWritten>>

SpecXRefs == InitXRefs /\ [][ToXRefs]_vars

\* file events and editor events together, over index files that an earlier
\* session left for both documents of the book
InitFrames ==
  /\ unsavedFiles_ = <<>>
  /\ rmd = [p \in BookRmds |-> NoRmd]
  /\ idx = [r \in RelPaths |-> IF r = "a.Rmd" THEN persisted(0) ELSE persisted(1)]
  /\ now = 1
  /\ isBookdown = TRUE
  /\ last = Idle
  /\ lastDirty = {}
  /\ lastWritten = [r \in RelPaths |-> readStringVector(idx[r].text)]
  /\ running = <<>>
  /\ NoPublish

NextFrames ==
  \/ FileEvent(Watched)
  \/ DocUpdated
  \/ DocRemoved
  \/ onAllSourceDocsRemoved
  \/ DiskSave(Watched)
  \/ DiskDelete(Watched)
  \/ Tick
  \/ Return

SpecFrames == InitFrames /\ [][NextFrames]_vars

\* the handlers step by step: a handler that renders a document is in
\* progress from the call of indexForDoc until it has stored the index
MaxRunning == 2

\* the session's single worker takes the next event when the handler of the
\* previous one has returned
dispatchable(handlers) == handlers = <<>>

withoutHandler(handlers, i) ==
  SubSeq(handlers, 1, i - 1) \o SubSeq(handlers, i + 1, Len(handlers))

\* fileChangeHandler for an event that re-indexes, up to the return of
\* indexForDoc(rmdFile)
reindexBegin(type, path, readOk, pandocOk) ==
  LET rmdFile == rmd[path]
      idxFile == idx[bookRelativePath(path)]
  IN /\ last = Idle
     /\ dispatchable(running)
     /\ Len(running) < MaxRunning
     /\ isBookdown
     /\ isBookdownRmd(path)
     /\ type \in {"FileAdded", "FileModified"}
     /\ ~returnsEarly(type, idxFile, rmdFile)
     /\ rmdFile.exists
     /\ running' = Append(running,
                          [op |-> type, path |-> bookRelativePath(path),
                           index |-> indexForDocOnDisk(path, rmdFile, readOk, pandocOk)])
     /\ UNCHANGED <<publishVars, unsavedFiles_, rmd, idx, now, isBookdown, last, lastDirty,
                    lastWritten>>

\* fileChangeHandler from writeStringVectorToFile(idxFile, idx.entries) on
reindexEnd(i, writeOk) ==
  LET handler == running[i]
  IN /\ handler.op \in {"FileAdded", "FileModified"}
     /\ idx' = [idx EXCEPT ![handler.path] =
                  writtenIndex(idx[handler.path], handler.index.entries, writeOk, now)]
     /\ lastWritten' = IF writeOk
                         THEN [lastWritten EXCEPT ![handler.path] = handler.index.entries]
                         ELSE lastWritten
     /\ running' = withoutHandler(running, i)
     /\ UNCHANGED <<publishVars, unsavedFiles_, rmd, now, isBookdown, last, lastDirty>>

\* onSourceDocUpdated for a dirty document of the book: updateUnsaved up to
\* the return of indexForDoc(filePath, contents)
updateUnsavedBegin(path, contents, pandocOk) ==
  /\ last = Idle
  /\ dispatchable(running)
  /\ Len(running) < MaxRunning
  /\ path # ""
  /\ isBookdownRmd(path)
  /\ unsavedFiles_' = removeUnsaved(unsavedFiles_, path)
  /\ running' = Append(running,
                       [op |-> "onSourceDocUpdated", path |-> bookRelativePath(path),
                        index |-> indexForDoc(bookRelativePath(path), contents, pandocOk)])
  /\ lastDirty' = lastDirty \cup {bookRelativePath(path)}
  /\ UNCHANGED <<publishVars, rmd, idx, now, isBookdown, last, lastWritten>>

\* updateUnsaved: unsavedFiles_[bookRelativePath(filePath)] = idx
updateUnsavedEnd(i) ==
  LET handler == running[i]
  IN /\ handler.op = "onSourceDocUpdated"
     /\ unsavedFiles_' = mapPut(unsavedFiles_, handler.path, handler.index)
     /\ running' = withoutHandler(running, i)
     /\ UNCHANGED <<publishVars, rmd, idx, now, isBookdown, last, lastDirty, lastWritten>>

ReindexBegin ==
  \E type \in {"FileAdded", "FileModified"}, path \in Watched :
    \E readOk \in BOOLEAN, pandocOk \in BOOLEAN :
      reindexBegin(type, path, readOk, pandocOk)

ReindexEnd == \E i \in DOMAIN running, writeOk \in BOOLEAN : reindexEnd(i, writeOk)

\* the handler of a FileRemoved event stores nothing it has computed
Evict ==
  /\ dispatchable(running)
  /\ \E path \in Watched :
       \E removeOk \in Outcomes(idx[bookRelativePath(path)].exists) :
         fileChangeHandler("FileRemoved", path, TRUE, TRUE, TRUE, removeOk)

UpdateBegin ==
  \E path \in Watched, contents \in Contents, pandocOk \in BOOLEAN :
    updateUnsavedBegin(path, contents, pandocOk)

UpdateEnd == \E i \in DOMAIN running : updateUnsavedEnd(i)

\* the editor events that render nothing
UpdateClean ==
  /\ dispatchable(running)
  /\ \E path \in Watched : onSourceDocUpdated(path, 0, FALSE, TRUE)

Remove ==
  /\ dispatchable(running)
  /\ \E path \in Watched : onSourceDocRemoved(path)

InitSteps ==
  /\ unsavedFiles_ = <<>>
  /\ rmd = [p \in BookRmds |-> NoRmd]
  /\ idx = [r \in RelPaths |-> NoIdx]
  /\ now = 1
  /\ isBookdown = TRUE
  /\ last = Idle
  /\ lastDirty = {}
  /\ lastWritten = [r \in RelPaths |-> <<>>]
  /\ running = <<>>
  /\ NoPublish

NextSteps ==
  \/ ReindexBegin
  \/ ReindexEnd
  \/ Evict
  \/ UpdateBegin
  \/ UpdateEnd
  \/ UpdateClean
  \/ Remove
  \/ DiskSave(Watched)
  \/ DiskDelete(Watched)
  \/ Tick
  \/ Return

SpecSteps == InitSteps /\ [][NextSteps]_vars

\* ============================================ publishing (SessionRSConnect.cpp)
\* The rsconnect_publish request and the single current publish job.  A job
\* is numbered by its creation; s_pRSConnectPublish_ = 0 is the empty pointer.

MaxJobs == 3

\* the response value set by pResponse->setResult(bool)
boolResult(b) == [error |-> FALSE, result |-> <<b>>]

\* the response of a request whose handler returned an error
errorResult == [error |-> TRUE, result |-> <<>>]

\* the files a request names in its file list
FileList(hasFiles) == IF hasFiles THEN <<"app.R">> ELSE <<>>

\* the record kept of a publish request: whether its parameters could be
\* read, the file list it named and its response
DidPublish(paramsOk, hasFiles, response) ==
  [Did(IF paramsOk THEN "rsconnectPublish" ELSE "publishError", "", FALSE, {})
     EXCEPT !.sourceFiles = IF paramsOk THEN FileList(hasFiles) ELSE <<>>,
            !.response = response]

isPublishRunning_never(pPublish, runningJobs) == FALSE

\* s_pRSConnectPublish_ && s_pRSConnectPublish_->isRunning()
isPublishRunning(pPublish, runningJobs) ==
  pPublish # 0 /\ pPublish \in runningJobs

\* RSConnectPublish::create returns an error before the process is started
createFails(hasFiles, tempOk, writeOk) == hasFiles /\ ~(tempOk /\ writeOk)

\* AsyncRProcess::start: the job's process runs when it could be launched
start(runningJobs, job, startOk) ==
  IF startOk THEN runningJobs \cup {job} ELSE runningJobs

\* onCompleted: the manifest of the job is removed unless the removal fails
onCompleted(manifests, job, removeOk) ==
  IF removeOk THEN manifests \ {job} ELSE manifests

rsconnectPublish(paramsOk, hasFiles, tempOk, writeOk, startOk, removeOk) ==
  LET busy == isPublishRunning(s_pRSConnectPublish_, isRunning_)
      job == created + 1
      written == IF hasFiles THEN manifestPath_ \cup {job} ELSE manifestPath_
  IN
  /\ last = Idle
  /\ IF ~paramsOk
       THEN /\ last' = DidPublish(paramsOk, hasFiles, errorResult)
            /\ UNCHANGED publishVars
     ELSE IF busy
       THEN /\ last' = DidPublish(paramsOk, hasFiles, boolResult(FALSE))
            /\ UNCHANGED publishVars
     ELSE IF createFails(hasFiles, tempOk, writeOk)
       THEN /\ last' = DidPublish(paramsOk, hasFiles, errorResult)
            /\ UNCHANGED publishVars
     ELSE /\ created < MaxJobs
          /\ created' = job
          /\ isRunning_' = start(isRunning_, job, startOk)
          /\ manifestPath_' = IF startOk THEN written
                                         ELSE onCompleted(written, job, removeOk)
          /\ s_pRSConnectPublish_' = job
          /\ last' = DidPublish(paramsOk, hasFiles, boolResult(TRUE))
  /\ UNCHANGED <<running, unsavedFiles_, rmd, idx, now, isBookdown, lastDirty, lastWritten>>

\* the process of a job exits and the worker runs the job's onCompleted
processCompleted(job, removeOk) ==
  /\ last = Idle
  /\ job \in isRunning_
  /\ isRunning_' = isRunning_ \ {job}
  /\ manifestPath_' = onCompleted(manifestPath_, job, removeOk)
  /\ last' = Did("onCompleted", "", FALSE, {})
  /\ UNCHANGED <<s_pRSConnectPublish_, created>>
  /\ UNCHANGED <<running, unsavedFiles_, rmd, idx, now, isBookdown, lastDirty, lastWritten>>

PublishRequest ==
  \E paramsOk \in BOOLEAN, hasFiles \in BOOLEAN :
    \E tempOk \in Outcomes(paramsOk /\ hasFiles) :
      \E writeOk \in Outcomes(paramsOk /\ hasFiles /\ tempOk) :
        \E startOk \in Outcomes(paramsOk /\ ~createFails(hasFiles, tempOk, writeOk)) :
          \E removeOk \in Outcomes(~startOk /\ hasFiles) :
            rsconnectPublish(paramsOk, hasFiles, tempOk, writeOk, startOk, removeOk)

PublishCompleted ==
  \E job \in 1..MaxJobs :
    \E removeOk \in Outcomes(job \in manifestPath_) :
      processCompleted(job, removeOk)

InitPublish == Init

NextPublish ==
  \/ PublishRequest
  \/ PublishCompleted
  \/ Return

SpecPublish == InitPublish /\ [][NextPublish]_vars

\* ================================================================== claims
\* the raw entries a project query returned for one document, in order
returnedFor(indexEntries, file) ==
  LET own == SelectSeq(indexEntries, LAMBDA e : e.file = file)
  IN [i \in 1..Len(own) |-> own[i].entry]

\* the documents an enumeration lists
Enumerated(sourceFiles) == {sourceFiles[k] : k \in 1..Len(sourceFiles)}

\* the last operation logged a failure of the call for the subject
Logged(call, subject) == <<call, subject>> \in last.logged

\* C1: a project-scope query returns, for every enumerated document that has
\* an entry in the unsaved index, exactly that entry's raw entries in their
\* order, whatever the index file of the document holds.
C1_OverlayPrecedence ==
  last.op = "projectQuery" =>
    \A p \in Enumerated(last.sourceFiles) :
      p \in DOMAIN unsavedFiles_ =>
        returnedFor(last.indexEntries, p) = unsavedFiles_[p].entries

\* C1 witness: a project query answered a document from the unsaved index
\* while its index file holds other entries.
C1_Witness ==
  /\ last.op = "projectQuery"
  /\ \E p \in Enumerated(last.sourceFiles) :
       /\ p \in DOMAIN unsavedFiles_
       /\ unsavedFiles_[p].entries # <<>>
       /\ idx[p].exists
       /\ readStringVector(idx[p].text) # <<>>
       /\ readStringVector(idx[p].text) # unsavedFiles_[p].entries
       /\ returnedFor(last.indexEntries, p) = unsavedFiles_[p].entries

\* C2, as claimed: a project-scope query returns, for every enumerated
\* document without an entry in the unsaved index, exactly the entries last
\* written to its index file, and none when it has no index file.
C2_StoreAuthoritative_Claimed ==
  last.op = "projectQuery" =>
    \A p \in Enumerated(last.sourceFiles) :
      p \notin DOMAIN unsavedFiles_ =>
        returnedFor(last.indexEntries, p) =
          IF idx[p].exists THEN lastWritten[p] ELSE <<>>

\* C2, amended: the same, for an index file that readStringVectorFromFile
\* reads; when reading it fails the query returns no entries for the document.
C2_StoreAuthoritative ==
  last.op = "projectQuery" =>
    \A p \in Enumerated(last.sourceFiles) :
      p \notin DOMAIN unsavedFiles_ =>
        returnedFor(last.indexEntries, p) =
          IF idx[p].exists /\ ~Logged("readStringVectorFromFile", p)
            THEN lastWritten[p]
            ELSE <<>>

\* C2 witness: a project query answered a document from a non-empty index
\* file that a re-index wrote, while another document is in the unsaved index.
C2_Witness ==
  /\ last.op = "projectQuery"
  /\ unsavedFiles_ # <<>>
  /\ \E p \in Enumerated(last.sourceFiles) :
       /\ p \notin DOMAIN unsavedFiles_
       /\ idx[p].exists
       /\ lastWritten[p] # <<>>
       /\ returnedFor(last.indexEntries, p) = lastWritten[p]

\* the entries the renderer yields for a document's contents
RenderedEntries(contents) == splitLines(PandocStdOut(contents))

\* a file event of the given type for the document was dispatched in this step
FileEventStep(type, path) ==
  last = Idle /\ last'.op = type /\ last'.path = path

\* the handler of this step logged a failure of the call for the subject
LoggedNext(call, subject) == <<call, subject>> \in last'.logged

\* the index the handler of this step computed for the document: of the
\* contents read (of the empty string when reading failed), and without
\* entries when the renderer failed
ComputedEntries(path) ==
  IF LoggedNext("runPandoc", bookRelativePath(path))
    THEN <<>>
    ELSE RenderedEntries(IF LoggedNext("readStringFromFile", bookRelativePath(path))
                           THEN 0 ELSE rmd[path].contents)

\* a project query returns no entries for a document that has neither an
\* entry in the unsaved index nor an index file
NoIndexNoEntries ==
  last.op = "projectQuery" =>
    \A p \in Enumerated(last.sourceFiles) :
      (p \notin DOMAIN unsavedFiles_ /\ ~idx[p].exists) =>
        returnedFor(last.indexEntries, p) = <<>>

\* an index file comes into existence only by a FileAdded or FileModified
\* event for its document
IndexAppearsByReindexOnly ==
  \A p \in RelPaths :
    (~idx[p].exists /\ idx'[p].exists) =>
      /\ last'.op \in {"FileAdded", "FileModified"}
      /\ bookRelativePath(last'.path) = p

\* C3, as claimed: after a FileRemoved event for a document its index file
\* does not exist, it stays absent until a FileAdded or FileModified event for
\* the document, and project queries return no entries for the document while
\* it is absent from the unsaved index too.
C3_Evicted_Claimed ==
  /\ [](last.op = "FileRemoved" => ~idx[bookRelativePath(last.path)].exists)
  /\ [][IndexAppearsByReindexOnly]_vars
  /\ []NoIndexNoEntries

\* C3, amended: the same for a FileRemoved event whose removeIfExists
\* succeeds; when it fails the index file stays.
C3_Evicted ==
  /\ [](last.op = "FileRemoved" =>
          IF Logged("removeIfExists", bookRelativePath(last.path))
            THEN idx[bookRelativePath(last.path)].exists
            ELSE ~idx[bookRelativePath(last.path)].exists)
  /\ [][IndexAppearsByReindexOnly]_vars
  /\ []NoIndexNoEntries

\* C3 witness: a FileRemoved event has removed an index file that existed.
C3_Witness ==
  /\ last.op = "FileRemoved"
  /\ last.changed
  /\ ~idx[bookRelativePath(last.path)].exists
  /\ rmd[last.path].exists

\* C4, as claimed: a FileAdded event leaves an index file that is newer than
\* the document alone without invoking the renderer, and otherwise re-indexes
\* the document and replaces its index file.
C4_AddedFreshness_Claimed ==
  [][\A path \in BookRmds :
       FileEventStep("FileAdded", path) =>
         LET rel == bookRelativePath(path)
             newer == idx[rel].exists /\ idx[rel].mtime > getLastWriteTime(rmd[path])
         IN IF newer
              THEN idx'[rel] = idx[rel] /\ ~last'.rendered
              ELSE /\ last'.rendered
                   /\ idx'[rel].exists
                   /\ idx'[rel].mtime = now
                   /\ readStringVector(idx'[rel].text) = ComputedEntries(path)]_vars

\* C4, amended: on a FileAdded event an index file newer than the document
\* is left alone and the renderer is not invoked; otherwise the document is
\* re-indexed if it exists on disk, and its index file is replaced if the
\* write succeeds; for a document that does not exist, or a write that fails,
\* the index file is unchanged.
C4_AddedFreshness ==
  [][\A path \in BookRmds :
       FileEventStep("FileAdded", path) =>
         LET rel == bookRelativePath(path)
             newer == idx[rel].exists /\ idx[rel].mtime > getLastWriteTime(rmd[path])
         IN IF newer \/ ~rmd[path].exists
              THEN idx'[rel] = idx[rel] /\ ~last'.rendered
              ELSE /\ last'.rendered
                   /\ IF LoggedNext("writeStringVectorToFile", rel)
                        THEN idx'[rel] = idx[rel]
                        ELSE /\ idx'[rel].exists
                             /\ idx'[rel].mtime = now
                             /\ readStringVector(idx'[rel].text) = ComputedEntries(path)]_vars

\* C4 witness: a FileAdded event was skipped for a document on disk whose
\* index file is newer and holds the entries of other contents.
C4_Witness ==
  /\ last.op = "FileAdded"
  /\ ~last.rendered
  /\ rmd[last.path].exists
  /\ idx[bookRelativePath(last.path)].exists
  /\ idx[bookRelativePath(last.path)].mtime > rmd[last.path].mtime
  /\ lastWritten[bookRelativePath(last.path)] # RenderedEntries(rmd[last.path].contents)

\* C5, as claimed: every FileModified event re-indexes the document whatever
\* the timestamps, and afterwards the index file holds exactly the renderer
\* output for the contents on disk.
C5_ModifiedReindexes_Claimed ==
  [][\A path \in BookRmds :
       FileEventStep("FileModified", path) =>
         LET rel == bookRelativePath(path)
         IN /\ last'.rendered
            /\ idx'[rel].exists
            /\ readStringVector(idx'[rel].text) = RenderedEntries(rmd[path].contents)]_vars

\* C5, amended: a FileModified event re-indexes a document that exists on
\* disk whatever the timestamps; when the write succeeds the index file then
\* holds exactly the index computed for the contents read (for the empty
\* string when the read failed, no entries when the renderer failed); when the
\* document does not exist or the write fails the index file is unchanged.
C5_ModifiedReindexes ==
  [][\A path \in BookRmds :
       FileEventStep("FileModified", path) =>
         LET rel == bookRelativePath(path)
         IN IF ~rmd[path].exists
              THEN idx'[rel] = idx[rel] /\ ~last'.rendered
              ELSE /\ last'.rendered
                   /\ IF LoggedNext("writeStringVectorToFile", rel)
                        THEN idx'[rel] = idx[rel]
                        ELSE /\ idx'[rel].exists
                             /\ idx'[rel].mtime = now
                             /\ readStringVector(idx'[rel].text) = ComputedEntries(path)]_vars

\* C5 witness: a FileModified event has rewritten the index file of a
\* document that is older than the clock, with the entries of its contents.
C5_Witness ==
  /\ last.op = "FileModified"
  /\ last.changed
  /\ last.logged = {}
  /\ rmd[last.path].mtime < now
  /\ idx[bookRelativePath(last.path)].mtime = now
  /\ lastWritten[bookRelativePath(last.path)] = RenderedEntries(rmd[last.path].contents)
  /\ RenderedEntries(rmd[last.path].contents) # <<<<>>>>

\* C8: a re-index that fails on reading the document or on writing the index
\* file leaves the index file that existed before as it was.
C8_FailedReindexKeepsIndex ==
  [][\A path \in BookRmds :
       LET rel == bookRelativePath(path)
       IN (/\ last = Idle
           /\ last'.op \in {"FileAdded", "FileModified"}
           /\ last'.path = path
           /\ idx[rel].exists
           /\ \/ LoggedNext("readStringFromFile", rel)
              \/ LoggedNext("writeStringVectorToFile", rel))
          => idx'[rel] = idx[rel]]_vars

\* C6: an update of the unsaved index for a document of the book that is not
\* dirty leaves the map that removing the document's entry leaves; a dirty
\* one leaves the document's entry equal to the index computed from the
\* contents, whatever entry it had, and the entries of all other documents as
\* they were.
C6_OverlayUpdate ==
  [][\A path \in BookRmds, contents \in Contents,
        dirty \in BOOLEAN, pandocOk \in BOOLEAN :
       onSourceDocUpdated(path, contents, dirty, pandocOk) =>
         LET rel == bookRelativePath(path)
         IN IF dirty
              THEN /\ DOMAIN unsavedFiles_' = DOMAIN unsavedFiles_ \cup {rel}
                   /\ unsavedFiles_'[rel] = indexForDoc(rel, contents, pandocOk)
                   /\ \A k \in DOMAIN unsavedFiles_ \ {rel} :
                        unsavedFiles_'[k] = unsavedFiles_[k]
              ELSE /\ unsavedFiles_' = removeUnsaved(unsavedFiles_, path)
                   /\ DOMAIN unsavedFiles_' = DOMAIN unsavedFiles_ \ {rel}
                   /\ \A k \in DOMAIN unsavedFiles_ \ {rel} :
                        unsavedFiles_'[k] = unsavedFiles_[k]]_vars

\* C6 witness: a dirty update has stored entries for a document while the
\* other document of the book has an entry too.
C6_Witness ==
  /\ last.op = "onSourceDocUpdated"
  /\ last.rendered
  /\ DOMAIN unsavedFiles_ = RelPaths
  /\ unsavedFiles_[bookRelativePath(last.path)].entries # <<>>

\* C7: the unsaved index has an entry for a document of the book exactly when
\* the latest editor event for it was an update that reported it dirty, and
\* it is empty after all documents were removed.
C7_OverlayTracksDirty ==
  /\ DOMAIN unsavedFiles_ = lastDirty
  /\ last.op = "onAllSourceDocsRemoved" => DOMAIN unsavedFiles_ = {}

\* C7 witness: an update that reported a document clean has removed its
\* entry while the other document stays dirty.
C7_Witness ==
  /\ last.op = "onSourceDocUpdated"
  /\ ~last.rendered
  /\ last.changed
  /\ bookRelativePath(last.path) \notin DOMAIN unsavedFiles_
  /\ DOMAIN unsavedFiles_ # {}

\* the last operation logged a failure of the renderer
RendererFailed == \E e \in last.logged : e[1] = "runPandoc"

\* C9: when the renderer fails the index computed is the empty entry list and
\* no caller sees the failure: an update of the unsaved index stores no
\* entries, a re-index writes an index file without entries, and a query
\* answers with the empty array and no error.
C9_RendererFailure ==
  RendererFailed =>
    /\ ~last.response.error
    /\ last.op \in {"FileAdded", "FileModified", "onSourceDocUpdated", "fileQuery"}
    /\ last.op = "fileQuery" =>
         last.indexEntries = <<>> /\ last.response.result = <<>>
    /\ last.op = "onSourceDocUpdated" =>
         /\ bookRelativePath(last.path) \in DOMAIN unsavedFiles_
         /\ unsavedFiles_[bookRelativePath(last.path)].entries = <<>>
    /\ last.op \in {"FileAdded", "FileModified"} =>
         \/ Logged("writeStringVectorToFile", bookRelativePath(last.path))
         \/ /\ idx[bookRelativePath(last.path)].exists
            /\ readStringVector(idx[bookRelativePath(last.path)].text) = <<>>

\* C9 witness: a re-index whose renderer failed has written the index file.
C9_Witness ==
  /\ last.op = "FileModified"
  /\ last.logged = {<<"runPandoc", bookRelativePath(last.path)>>}
  /\ last.changed
  /\ RenderedEntries(rmd[last.path].contents) # <<>>

\* the id-token of an entry: what precedes its first space
IdToken(entry) ==
  IF find_first_of(entry, " ") = 0 THEN entry
  ELSE SubSeq(entry, 1, find_first_of(entry, " ") - 1)

\* C10: the records of a project-scope query are in the order of the
\* enumeration and, for one document, in the order of its raw entries: the
\* record of the n-th entry that yields a record, counting document by
\* document, is the n-th record.
C10_Ordering ==
  last.op = "projectQuery" =>
    LET files == last.sourceFiles
        result == last.response.result
        E(d) == IF files[d] \in DOMAIN unsavedFiles_
                  THEN unsavedFiles_[files[d]].entries
                  ELSE IF idx[files[d]].exists
                          /\ ~Logged("readStringVectorFromFile", files[d])
                         THEN readStringVector(idx[files[d]].text)
                         ELSE <<>>
        Pairs == UNION {{<<d, k>> : k \in {i \in 1..Len(E(d)) :
                                            E(d)[i] # <<>> /\ ~isTextRef(E(d)[i])}} :
                        d \in 1..Len(files)}
        Before(x, y) == x[1] < y[1] \/ (x[1] = y[1] /\ x[2] < y[2])
        Rank(x) == Cardinality({y \in Pairs : Before(y, x)}) + 1
    IN /\ Len(result) = Cardinality(Pairs)
       /\ \A x \in Pairs :
            /\ result[Rank(x)].file = files[x[1]]
            /\ result[Rank(x)].type = writeEntryId(IdToken(E(x[1])[x[2]])).type
            /\ result[Rank(x)].id = writeEntryId(IdToken(E(x[1])[x[2]])).id

\* C10 witness: a project query over an enumeration that is not in
\* alphabetical order has returned two records for each of two documents.
C10_Witness ==
  /\ last.op = "projectQuery"
  /\ last.sourceFiles = <<"b.Rmd", "a.Rmd">>
  /\ Len(last.response.result) = 4
  /\ last.response.result[2].file = "b.Rmd"
  /\ last.response.result[3].file = "a.Rmd"
  /\ last.response.result[1].id # last.response.result[2].id

\* indexEntriesToXRefs has been applied to the raw entries of a query
Converted == last.op = "indexEntriesToXRefs"

\* an entry of the indirect form "(key) value": a parenthesised key, white
\* space, and the value
IndirectForm(entry) ==
  /\ Len(entry) >= 3
  /\ entry[1] = "("
  /\ \E j \in 2..(Len(entry) - 1) : entry[j] = ")" /\ entry[j+1] \in {" ", "\t"}

\* the raw entries that are neither indirect nor empty, in order
RecordSources(entries) ==
  SelectSeq(entries, LAMBDA e : ~IndirectForm(e.entry) /\ e.entry # <<>>)

\* C11: the records are, one for one and in order, the raw entries that are
\* neither of the indirect form nor empty: as many records as such entries,
\* each with the file and the id-token of its entry, and no indirect entry
\* among them.
C11_RecordsFromNormalEntries ==
  Converted =>
    LET sources == RecordSources(last.indexEntries)
        result == last.response.result
    IN /\ Len(result) = Len(sources)
       /\ \A i \in 1..Len(result) :
            /\ result[i].file = sources[i].file
            /\ result[i].type = writeEntryId(IdToken(sources[i].entry)).type
            /\ result[i].id = writeEntryId(IdToken(sources[i].entry)).id

\* C11 witness: of an indirect entry, an empty entry and a direct entry, only
\* the direct entry has become a record.
C11_Witness ==
  /\ Converted
  /\ Len(last.indexEntries) = 3
  /\ \E i, j, k \in 1..3 :
       /\ IndirectForm(last.indexEntries[i].entry)
       /\ last.indexEntries[j].entry = <<>>
       /\ last.indexEntries[k].entry = <<"f", ":", "a", " ", "T">>
  /\ Len(last.response.result) = 1
  /\ last.response.result[1].id = <<"a">>

\* the literal title of an entry: what follows its first space
LiteralTitle(entry) == SubSeq(entry, find_first_of(entry, " ") + 1, Len(entry))

\* the positions of the indirect entries of a query that declare the key
Declarations(entries, key) ==
  {i \in 1..Len(entries) :
     isTextRef(entries[i].entry) /\ textRefKey(entries[i].entry) = key}

\* the keys collected from the indirect entries of a query
CollectedKeys(entries) ==
  {textRefKey(entries[i].entry) :
     i \in {k \in 1..Len(entries) : isTextRef(entries[k].entry)}}

\* the value of a collected key: that of its latest declaration
ResolvedValue(entries, key) ==
  LET m == CHOOSE i \in Declarations(entries, key) :
             \A j \in Declarations(entries, key) : j <= i
  IN textRefValue(entries[m].entry)

\* C12, as claimed: the title of a record is the resolved value of an
\* indirect entry if and only if its literal title is, as a whole string, a
\* key collected in the same query; otherwise it is the literal title.
C12_TitleResolution_Claimed ==
  Converted =>
    LET entries == last.indexEntries
        sources == RecordSources(entries)
        result == last.response.result
    IN \A i \in 1..Len(sources) :
         find_first_of(sources[i].entry, " ") # 0 =>
           result[i].title =
             IF LiteralTitle(sources[i].entry) \in CollectedKeys(entries)
               THEN ResolvedValue(entries, LiteralTitle(sources[i].entry))
               ELSE LiteralTitle(sources[i].entry)

\* C12, amended: the title of a record is the resolved value of an indirect
\* entry if and only if its literal title is, as a whole string, a key
\* collected in the same query and the resolved value of that key is not
\* empty; otherwise it is the literal title.
C12_TitleResolution ==
  Converted =>
    LET entries == last.indexEntries
        sources == RecordSources(entries)
        result == last.response.result
    IN \A i \in 1..Len(sources) :
         find_first_of(sources[i].entry, " ") # 0 =>
           LET literal == LiteralTitle(sources[i].entry)
               resolves == /\ literal \in CollectedKeys(entries)
                           /\ ResolvedValue(entries, literal) # <<>>
           IN result[i].title = IF resolves THEN ResolvedValue(entries, literal)
                                            ELSE literal

\* C12 witness: with the key "(k)" declared, the title "(k)" has been
\* replaced by the value and the title "k" has been kept.
C12_Witness ==
  /\ Converted
  /\ \E i \in 1..Len(last.indexEntries) :
       last.indexEntries[i].entry = <<"(", "k", ")", " ", "V">>
  /\ Len(last.response.result) = 2
  /\ \E i, j \in 1..2 :
       /\ last.response.result[i].id = <<"b">>
       /\ last.response.result[i].title = <<"V">>
       /\ last.response.result[j].id = <<"b">>
       /\ last.response.result[j].title = <<"k">>

Blank(entry) == \A i \in 1..Len(entry) : entry[i] \in {" ", "\t"}

\* C14: there is exactly one record for each normal entry that has raw text,
\* and every entry that is blank after trimming (empty or of white space
\* only) is dropped: the records are as many as the entries that are neither
\* indirect nor blank.
C14_BlankDropped ==
  Converted =>
    Len(last.response.result) =
      Len(SelectSeq(last.indexEntries,
                    LAMBDA e : ~IndirectForm(e.entry) /\ ~Blank(e.entry)))

\* C15: a query that is answered for the one document, for a document that
\* is open in the editor, returns the records of the index of the contents
\* the editor holds at the request (no records when the renderer fails),
\* whatever the unsaved index and the index files hold.
C15_SingleDocument ==
  [][\A file \in QueryFiles, contents \in Contents, pandocOk \in BOOLEAN :
       (/\ ~(isBookdown /\ isWithin(file))
        /\ xrefIndexForFile(TRUE, file, TRUE, <<>>, AllRead, TRUE, TRUE,
                            contents, pandocOk))
       => last'.response =
            [error |-> FALSE,
             result |-> indexEntriesToXRefs(
                          indexEntriesOf(getFilename(file),
                                         IF pandocOk THEN RenderedEntries(contents)
                                                     ELSE <<>>))]]_vars

\* C15 witness: a query for the one document has returned the records of
\* the editor's contents while the unsaved index and the index file hold
\* other entries for the document.
C15_Witness ==
  /\ last.op = "fileQuery"
  /\ last.rendered
  /\ last.path = "/book/a.Rmd"
  /\ last.response.result # <<>>
  /\ "a.Rmd" \in DOMAIN unsavedFiles_
  /\ returnedFor(last.indexEntries, "a.Rmd") # unsavedFiles_["a.Rmd"].entries
  /\ idx["a.Rmd"].exists
  /\ returnedFor(last.indexEntries, "a.Rmd") # readStringVector(idx["a.Rmd"].text)

\* C16: a query for a document that is not under the build target path and
\* that the source database does not yield (it has no id for the path, or
\* the document of the id cannot be loaded) returns success with an empty
\* array.
C16_UnknownDocument ==
  [][\A file \in QueryFiles, haveId \in BOOLEAN, getOk \in BOOLEAN :
       (/\ ~isWithin(file)
        /\ ~(haveId /\ getOk)
        /\ xrefIndexForFile(TRUE, file, TRUE, <<>>, AllRead, haveId, getOk, 0, TRUE))
       => last'.response = [error |-> FALSE, result |-> <<>>]]_vars

\* C16 witness: a query for a document outside the book whose source
\* document could not be loaded has returned success with an empty array.
C16_Witness ==
  /\ last.op = "fileQuery"
  /\ last.path = "/other/o.Rmd"
  /\ Logged("source_database::get", "/other/o.Rmd")
  /\ last.response = [error |-> FALSE, result |-> <<>>]

\* the operations that are requests of xref_index_for_file
QueryOps == {"queryError", "projectQuery", "fileQuery"}

\* C17: a request fails if and only if its parameters are missing or
\* invalid; every other request returns success with an array, whatever
\* failed while it was answered.
C17_FailsOnlyOnParams ==
  last.op \in QueryOps =>
    /\ last.response.error <=> last.op = "queryError"
    /\ ~last.response.error =>
         DOMAIN last.response.result = 1..Len(last.response.result)

\* C17 witness: a request whose parameters could not be read has failed.
C17_Witness ==
  /\ last.op = "queryError"
  /\ last.response.error
  /\ last.logged = {}

InProgress(ops, p) ==
  {i \in DOMAIN running : running[i].path = p /\ running[i].op \in ops}

StoreOps == {"FileAdded", "FileModified"}
OverlayOps == {"onSourceDocUpdated"}

EditorEventStep(op, path) ==
  last = Idle /\ last'.op = op /\ last'.path = path

\* the unsaved index is in this step left as it is for every key but the one
OverlayKeptBut(key) ==
  /\ (DOMAIN unsavedFiles_') \ {key} = (DOMAIN unsavedFiles_) \ {key}
  /\ \A q \in (DOMAIN unsavedFiles_) \ {key} : unsavedFiles_'[q] = unsavedFiles_[q]

\* C20: a file event for a document changes at most the index file of that
\* document, and neither the unsaved index nor the index file of another
\* document; an editor update or removal for a document changes at most the
\* entry of that document in the unsaved index, and no index file.
C20_DisjointEffects ==
  [][/\ \A type \in FileEventTypes, path \in BookRmds :
          FileEventStep(type, path) =>
            /\ unsavedFiles_' = unsavedFiles_
            /\ \A q \in RelPaths \ {bookRelativePath(path)} : idx'[q] = idx[q]
     /\ \A op \in {"onSourceDocUpdated", "onSourceDocRemoved"}, path \in DocPaths :
          EditorEventStep(op, path) =>
            /\ idx' = idx
            /\ OverlayKeptBut(bookRelativePath(path))]_vars

\* C20 witness: a file event has replaced the index file of one document
\* while the other document has an index file and an entry in the unsaved
\* index.
C20_Witness ==
  /\ last.op = "FileModified"
  /\ last.path = "/book/a.Rmd"
  /\ last.changed
  /\ lastWritten["a.Rmd"] # <<>>
  /\ "b.Rmd" \in DOMAIN unsavedFiles_
  /\ unsavedFiles_["b.Rmd"].entries # <<>>
  /\ idx["b.Rmd"].exists

\* a request of xref_index_for_file was answered in this step
QueryStep == last = Idle /\ last'.op \in QueryOps

\* the entries a project query that starts in this state is to return for a
\* source file, given whether reading its index file failed
StoredEntries(p, readFailed) ==
  IF p \in DOMAIN unsavedFiles_
    THEN unsavedFiles_[p].entries
    ELSE IF idx[p].exists /\ ~readFailed
           THEN readStringVector(idx[p].text)
           ELSE <<>>

\* C21: a query changes neither the unsaved index nor an index file nor a
\* document, and what it returns is determined by the state it starts in
\* and by what its request and its collaborators supply: the records are
\* the conversion of, for each enumerated document, the entries that state
\* holds for it. So the same query asked again with no event in between
\* starts in the same state and returns the same records.
C21_QueryReadOnly ==
  [][QueryStep =>
       /\ unsavedFiles_' = unsavedFiles_
       /\ idx' = idx
       /\ rmd' = rmd
       /\ last'.response.result =
            IF last'.op = "queryError" THEN <<>>
            ELSE indexEntriesToXRefs(last'.indexEntries)
       /\ last'.op = "projectQuery" =>
            /\ \A i \in 1..Len(last'.indexEntries) :
                 last'.indexEntries[i].file \in Enumerated(last'.sourceFiles)
            /\ \A p \in Enumerated(last'.sourceFiles) :
                 returnedFor(last'.indexEntries, p) =
                   StoredEntries(p, LoggedNext("readStringVectorFromFile", p))]_vars

\* C21 witness: a project query has returned records of a document of the
\* unsaved index and of a document with an index file, and both are there
\* after it.
C21_Witness ==
  /\ last.op = "projectQuery"
  /\ Len(last.sourceFiles) = 2
  /\ \E p, q \in Enumerated(last.sourceFiles) :
       /\ p \in DOMAIN unsavedFiles_
       /\ returnedFor(last.indexEntries, p) # <<>>
       /\ q \notin DOMAIN unsavedFiles_
       /\ idx[q].exists
       /\ returnedFor(last.indexEntries, q) # <<>>
  /\ Len(last.response.result) >= 2

\* the entries the renderer yields for each contents a document can have
PossibleEntries == {RenderedEntries(c) : c \in Contents}

\* the document is clean and its index file holds the entries
Converged(path, entries) ==
  /\ bookRelativePath(path) \notin DOMAIN unsavedFiles_
  /\ idx[bookRelativePath(path)].exists
  /\ readStringVector(idx[bookRelativePath(path)].text) = entries

\* an event for the document is handled in this step
EventFor(path) ==
  /\ last = Idle
  /\ last'.path = path
  /\ last'.op \in FileEventTypes \cup {"onSourceDocUpdated", "onSourceDocRemoved"}

\* a project query has returned the entries for the document
ReturnedEntries(path, entries) ==
  returnedFor(last.indexEntries, bookRelativePath(path)) = entries

\* as long as no event for the document is handled, a clean document stays
\* clean and its index file stays as it is
ConvergedUntilEvent(path) ==
  (/\ ~EventFor(path)
   /\ bookRelativePath(path) \notin DOMAIN unsavedFiles_)
  => /\ bookRelativePath(path) \notin DOMAIN unsavedFiles_'
     /\ idx'[bookRelativePath(path)] = idx[bookRelativePath(path)]

\* a FileModified event was handled for the clean document, which exists
\* on disk, and the renderer succeeded
ModifiedHandled(path) ==
  /\ last.op = "FileModified"
  /\ last.path = path
  /\ rmd[path].exists
  /\ ~Logged("runPandoc", bookRelativePath(path))
  /\ bookRelativePath(path) \notin DOMAIN unsavedFiles_

\* a project query has enumerated the document
Queried(path) ==
  /\ last.op = "projectQuery"
  /\ bookRelativePath(path) \in Enumerated(last.sourceFiles)

\* after such an event the index file holds the entries rendered from the
\* document on disk
ModifiedConverges_Claimed ==
  \A path \in Watched :
    ModifiedHandled(path) =>
      Converged(path, RenderedEntries(rmd[path].contents))

\* after such an event that wrote the index file, it holds the entries
\* rendered from what was read of the document: from the empty string when
\* reading it failed
ModifiedConverges ==
  \A path \in Watched :
    (/\ ModifiedHandled(path)
     /\ ~Logged("writeStringVectorToFile", bookRelativePath(path)))
    => Converged(path,
                 RenderedEntries(
                   IF Logged("readStringFromFile", bookRelativePath(path))
                     THEN 0 ELSE rmd[path].contents))

StaysConverged == \A path \in Watched : ConvergedUntilEvent(path)

\* a project query returns for a clean document the entries of its index file
ConvergedReturned_Claimed ==
  \A path \in Watched : \A entries \in PossibleEntries :
    (Queried(path) /\ Converged(path, entries)) => ReturnedEntries(path, entries)

\* a project query that can read the index file of a clean document returns
\* its entries for the document
ConvergedReturned ==
  \A path \in Watched : \A entries \in PossibleEntries :
    (/\ Queried(path)
     /\ ~Logged("readStringVectorFromFile", bookRelativePath(path))
     /\ Converged(path, entries))
    => ReturnedEntries(path, entries)

\* C22, as claimed: when a FileModified event has been handled for a clean
\* document that exists, with the renderer succeeding, the index file holds
\* the entries rendered from the document on disk; it keeps them until the
\* next event for the document; and meanwhile every project query that
\* enumerates the document returns them for it.
C22_Converges_Claimed ==
  /\ []ModifiedConverges_Claimed
  /\ [][StaysConverged]_vars
  /\ []ConvergedReturned_Claimed

\* C22, amended: the same when the index file was written, for the entries
\* rendered from what was read of the document (from the empty string when
\* reading it failed), and for the project queries that can read the index
\* file.
C22_Converges ==
  /\ []ModifiedConverges
  /\ [][StaysConverged]_vars
  /\ []ConvergedReturned

\* C22 witness: a project query has returned, for a clean document, the
\* entries rendered from the document on disk, which the latest re-index
\* wrote to its index file.
C22_Witness ==
  /\ last.op = "projectQuery"
  /\ "a.Rmd" \in Enumerated(last.sourceFiles)
  /\ rmd["/book/a.Rmd"].exists
  /\ RenderedEntries(rmd["/book/a.Rmd"].contents) # <<<<>>>>
  /\ Converged("/book/a.Rmd", RenderedEntries(rmd["/book/a.Rmd"].contents))
  /\ lastWritten["a.Rmd"] = RenderedEntries(rmd["/book/a.Rmd"].contents)
  /\ ReturnedEntries("/book/a.Rmd", RenderedEntries(rmd["/book/a.Rmd"].contents))

\* the positions of the entries of a query that become records
RecordPositions(entries) ==
  {s \in 1..Len(entries) :
     ~IndirectForm(entries[s].entry) /\ entries[s].entry # <<>>}

\* the record made of the entry at a position
RecordAt(entries, result, s) ==
  result[Cardinality({t \in RecordPositions(entries) : t <= s})]

\* C23: the keys are collected over the entries of all documents of the
\* query before a record is made: a title that is a key is resolved by the
\* latest declaration of the key among all the entries, in whichever
\* document and whether before or after the entry of the title, and by no
\* earlier declaration (the title is replaced by the value of that latest
\* declaration, and kept when that value is empty).
C23_KeysAcrossDocuments ==
  Converted =>
    LET entries == last.indexEntries
        result == last.response.result
    IN \A s \in RecordPositions(entries) :
         find_first_of(entries[s].entry, " ") # 0 =>
           \A m \in Declarations(entries, LiteralTitle(entries[s].entry)) :
             (\A n \in Declarations(entries, LiteralTitle(entries[s].entry)) : n <= m)
             => RecordAt(entries, result, s).title =
                  IF textRefValue(entries[m].entry) # <<>>
                    THEN textRefValue(entries[m].entry)
                    ELSE LiteralTitle(entries[s].entry)

\* C23 witness: a title of the first document has been resolved by the
\* second of two declarations of its key, both in the second document.
C23_Witness ==
  /\ Converted
  /\ Len(last.indexEntries) = 3
  /\ last.indexEntries[1] = [file |-> "a.Rmd", entry |-> <<"b", " ", "(", "k", ")">>]
  /\ last.indexEntries[2] = [file |-> "b.Rmd", entry |-> <<"(", "k", ")", " ", "V">>]
  /\ last.indexEntries[3] = [file |-> "b.Rmd", entry |-> <<"(", "k", ")", " ", "W">>]
  /\ Len(last.response.result) = 1
  /\ last.response.result[1].file = "a.Rmd"
  /\ last.response.result[1].title = <<"W">>

\* a publish request is handled in this step
PublishStep == last = Idle /\ last'.op \in {"rsconnectPublish", "publishError"}

\* the processes this step starts
StartedJobs == isRunning_' \ isRunning_

\* at most one publish process is running
AtMostOneRunning == Cardinality(isRunning_) <= 1

\* a request that arrives while the current job is running starts no process,
\* and returns false when claimed so
WhileRunning(returnsFalse) ==
  (PublishStep /\ s_pRSConnectPublish_ # 0 /\ s_pRSConnectPublish_ \in isRunning_) =>
    /\ StartedJobs = {}
    /\ UNCHANGED publishVars
    /\ returnsFalse

\* a new job was created, is the current job, and no other process runs
NewCurrentJob ==
  /\ s_pRSConnectPublish_' = created'
  /\ created' = created + 1
  /\ isRunning_' \subseteq {s_pRSConnectPublish_'}
  /\ last'.response = [error |-> FALSE, result |-> <<TRUE>>]

\* C24, as claimed: at most one publish process is running; a request that
\* arrives while the current job is running starts no new process and returns
\* false, and a request that arrives when no job is running starts exactly one
\* process, makes it the current job and returns true.
C24_SinglePublish_Claimed ==
  /\ []AtMostOneRunning
  /\ [][WhileRunning(last'.response = [error |-> FALSE, result |-> <<FALSE>>])]_vars
  /\ [][(PublishStep /\ isRunning_ = {}) =>
          (NewCurrentJob /\ StartedJobs = {s_pRSConnectPublish_'})]_vars

\* C24, amended: at most one publish process is running.  A request whose
\* parameters cannot be read returns an error and changes nothing.  A request
\* with valid parameters that arrives while the current job is running starts
\* no new process and returns false.  One that arrives when no job is running
\* either returns an error, which happens only when it names a file list
\* whose manifest could not be written, and then changes nothing; or it
\* creates a job, makes it the current job and returns true, and the process
\* of that job, if it could be launched, is the only one running.
C24_SinglePublish ==
  /\ []AtMostOneRunning
  /\ [][WhileRunning(last'.op = "rsconnectPublish" =>
                       last'.response = [error |-> FALSE, result |-> <<FALSE>>])]_vars
  /\ [][(PublishStep /\ last'.op = "publishError") =>
          (last'.response.error /\ UNCHANGED publishVars)]_vars
  /\ [][(PublishStep /\ last'.op = "rsconnectPublish" /\ isRunning_ = {}) =>
          IF last'.response.error
            THEN last'.sourceFiles # <<>> /\ UNCHANGED publishVars
            ELSE NewCurrentJob /\ StartedJobs \subseteq {s_pRSConnectPublish_'}]_vars

\* C24 witness: a second job was started after the first had completed, and a
\* request that arrived while it was running has returned false.
C24_Witness ==
  /\ last.op = "rsconnectPublish"
  /\ last.response = [error |-> FALSE, result |-> <<FALSE>>]
  /\ s_pRSConnectPublish_ = 2
  /\ isRunning_ = {2}

====
